---- MODULE Spec2Model ----
(***************************************************************************)
(* PowerTag Link gateway integration: the feature classification and the   *)
(* phase-sequence mappings of entity_base.py, the discovery loop of        *)
(* sensor.async_setup_entry, and the poll updates of the sensor entities.  *)
(***************************************************************************)
EXTENDS Integers, Sequences, FiniteSets, TLC

VARIABLES
    \* ---- classification calls (entity_base.py pure functions)
    argType,      \* product type handed to has_neutral / is_m / is_r
    argSeq,       \* phase sequence handed to the phase_sequence_to_* functions
    argNeutral,   \* the neutral flag handed to phase_sequence_to_line_voltages
    ret,          \* the last call made and what it returned
    \* ---- the gateway behind the client (environment)
    gateway,      \* the attached tags, by position: <<[address, serial, ptype, seq, reachable]>>
    debug,        \* logging.DEBUG >= _LOGGER.level
    \* ---- async_setup_entry
    phase,        \* "init", "probing", "done", "failed"
    pos,          \* loop variable i of the discovery loop
    probes,       \* the calls of modbus_address_of_node so far: <<[pos, address]>>
    devices,      \* the DeviceInfo objects created: device address -> DeviceInfo
    entities,     \* the local list `entities`; an entity refers to its DeviceInfo by address
    addCalls,     \* the calls of async_add_entities so far, each the list handed over
    error,        \* the exception that ended async_setup_entry, or NoError
    reads,        \* client accessor calls completed so far: <<accessor, address>> -> count
    \* ---- polling
    store,        \* per added entity: _attr_native_value, _attr_extra_state_attributes, _attr_last_reset
    tasks,        \* the async_update tasks that exist: entity number -> task state
    running,      \* the entities whose task holds the event loop: none or one
    clock,        \* number of async_update tasks created so far
    raised        \* the updates that ended in an exception: {[ent, upd, step]}

classifyVars == <<argType, argSeq, argNeutral, ret>>
envVars      == <<gateway, debug>>
setupVars    == <<phase, pos, probes, devices, entities, addCalls, error, reads>>
pollVars     == <<store, tasks, running, clock, raised>>
vars == <<argType, argSeq, argNeutral, ret, gateway, debug, phase, pos, probes,
          devices, entities, addCalls, error, reads, store, tasks, running, clock, raised>>

Range(s) == {s[i] : i \in DOMAIN s}

(***************************************************************************)
(* Enumerations of schneider_modbus, by the members entity_base.py names.  *)
(***************************************************************************)
Phase == {"A", "B", "C"}

LineVoltage == {"A_N", "B_N", "C_N", "A_B", "B_C", "C_A"}

PhaseSequence == {"A", "B", "C", "ABC", "ACB", "BAC", "BCA", "CAB", "CBA", "INVALID"}

Accessories == {"SMT10020", "A9XMWRD", "A9XMC2D3", "A9XMC1D3"}

\* FeatureClass, in definition order (the order a scan of the Enum visits).
FeatureClassOrder ==
    <<"A1", "A2", "P1", "F1", "F2", "F3", "FL", "MV", "M1", "M2", "M3", "R1">>

FeatureClass ==
    [A1 |-> <<"A9MEM1520", "A9MEM1521", "A9MEM1522", "A9MEM1541", "A9MEM1542">>,
     A2 |-> <<"A9MEM1540", "A9MEM1543">>,
     P1 |-> <<"A9MEM1561", "A9MEM1562", "A9MEM1563", "A9MEM1571", "A9MEM1572">>,
     F1 |-> <<"A9MEM1560", "A9MEM1570">>,
     F2 |-> <<"A9MEM1573">>,
     F3 |-> <<"A9MEM1564", "A9MEM1574">>,
     FL |-> <<"A9MEM1580">>,
     MV |-> <<"LV434020">>,
     M1 |-> <<"LV434021">>,
     M2 |-> <<"LV434022">>,
     M3 |-> <<"LV434023">>,
     R1 |-> <<"A9MEM1590", "A9MEM1591", "A9MEM1592", "A9MEM1593">>]

ProductType ==
    UNION {Range(FeatureClass[fc]) : fc \in DOMAIN FeatureClass} \cup Accessories

\* [fc for fc in FeatureClass if product_type in fc.value]
ClassesListing(product_type) ==
    SelectSeq(FeatureClassOrder, LAMBDA fc : product_type \in Range(FeatureClass[fc]))

\* [...][0] on the list of matches raises IndexError when no class lists the type
LookupRaises(product_type) == Len(ClassesListing(product_type)) = 0

\* [...][0]: the first match (defined when the lookup does not raise)
feature_class(product_type) == ClassesListing(product_type)[1]

is_powertag(product_type) == product_type \notin Accessories

has_neutral(product_type) == feature_class(product_type) \notin {"A2", "F2", "M2"}

is_m(product_type) == feature_class(product_type) \in {"M1", "M2", "M3", "MV"}

is_r(product_type) == feature_class(product_type) \in {"FL", "R1"}

phase_sequence_to_phases_swapped(phase_sequence) ==
    CASE phase_sequence = "A" -> <<"A">>
      [] phase_sequence = "B" -> <<"B">>
      [] phase_sequence = "C" -> <<"C">>
      [] phase_sequence = "ABC" -> <<"A", "B", "C">>
      [] phase_sequence = "ACB" -> <<"A", "C", "B">>
      [] phase_sequence = "BAC" -> <<"B", "A", "C">>
      [] phase_sequence = "BCA" -> <<"B", "C", "A">>
      [] phase_sequence = "CAB" -> <<"C", "A", "B">>
      [] phase_sequence = "CBA" -> <<"C", "A", "B">>
      [] phase_sequence = "INVALID" -> <<>>

phase_sequence_to_phases(phase_sequence) ==
    CASE phase_sequence = "A" -> <<"A">>
      [] phase_sequence = "B" -> <<"B">>
      [] phase_sequence = "C" -> <<"C">>
      [] phase_sequence = "ABC" -> <<"A", "B", "C">>
      [] phase_sequence = "ACB" -> <<"A", "C", "B">>
      [] phase_sequence = "BAC" -> <<"B", "A", "C">>
      [] phase_sequence = "BCA" -> <<"B", "C", "A">>
      [] phase_sequence = "CAB" -> <<"C", "A", "B">>
      [] phase_sequence = "CBA" -> <<"C", "B", "A">>
      [] phase_sequence = "INVALID" -> <<>>

phase_sequence_to_line_voltages_no_neutral_check(phase_sequence, neutral) ==
    IF phase_sequence = "INVALID"
    THEN <<>>
    ELSE IF phase_sequence \in {"A", "B", "C"}
    THEN CASE phase_sequence = "A" -> <<"A_N">>
           [] phase_sequence = "B" -> <<"B_N">>
           [] phase_sequence = "C" -> <<"C_N">>
    ELSE IF neutral
         THEN <<"A_N", "B_N", "C_N">>
         ELSE <<"A_B", "B_C", "C_A">>

phase_sequence_to_line_voltages(phase_sequence, neutral) ==
    IF phase_sequence = "INVALID"
    THEN <<>>
    ELSE IF phase_sequence \in {"A", "B", "C"}
    THEN IF ~neutral
         THEN <<>>
         ELSE CASE phase_sequence = "A" -> <<"A_N">>
                [] phase_sequence = "B" -> <<"B_N">>
                [] phase_sequence = "C" -> <<"C_N">>
    ELSE IF neutral
         THEN <<"A_N", "B_N", "C_N">>
         ELSE <<"A_B", "B_C", "C_A">>

(***************************************************************************)
(* The client (SchneiderModbus) as async_setup_entry sees it.              *)
(***************************************************************************)
NoAddress == 0

NoError == "none"

GATEWAY_DOMAIN == "gateway:"

TAG_DOMAIN == "tag:"

GatewayScope == 0

GatewaySerial == "GW"

\* client.modbus_address_of_node(i): the address of the i-th attached tag, None past the last
modbus_address_of_node(i) ==
    IF i <= Len(gateway) THEN gateway[i].address ELSE NoAddress

TagAt(modbus_index) == CHOOSE t \in Range(gateway) : t.address = modbus_index

\* the value an identity/metadata accessor returns for a device
Val(accessor, modbus_index) == accessor \o "@" \o ToString(modbus_index)

tag_serial_number(modbus_index) == TagAt(modbus_index).serial

tag_phase_sequence(modbus_index) == TagAt(modbus_index).seq

tag_product_type(modbus_index) == TagAt(modbus_index).ptype

\* client.tag_radio_lqi_gateway(modbus_index) is None
tag_radio_lqi_gateway_is_none(modbus_index) == ~TagAt(modbus_index).reachable

\* what a measurement accessor returned, and during which update it was read
\* (Discovery: read by a constructor, before any update)
Discovery == 0

Reading(accessor, upd) == [src |-> accessor, upd |-> upd]

Count(rd, key) == IF key \in DOMAIN rd THEN rd[key] ELSE 0

\* rd after the accessor calls ks (a sequence of <<accessor, address>>) completed
AddReads(rd, ks) ==
    [k \in DOMAIN rd \cup Range(ks) |->
        Count(rd, k) + Cardinality({i \in DOMAIN ks : ks[i] = k})]

At(accessors, modbus_index) ==
    [i \in DOMAIN accessors |-> <<accessors[i], modbus_index>>]

RECURSIVE Flatten(_)
Flatten(ss) == IF Len(ss) = 0 THEN <<>> ELSE Head(ss) \o Flatten(Tail(ss))

(***************************************************************************)
(* entity_base.py: device metadata and the entity constructors.            *)
(***************************************************************************)
gateway_device_info ==
    [configuration_url |-> "presentation_url",
     identifiers |-> {<<GATEWAY_DOMAIN, GatewaySerial>>},
     hw_version |-> Val("hardware_version", GatewayScope),
     sw_version |-> Val("firmware_version", GatewayScope),
     manufacturer |-> Val("manufacturer", GatewayScope),
     model |-> Val("product_code", GatewayScope),
     name |-> Val("name", GatewayScope),
     serial_number |-> GatewaySerial]

gateway_device_info_reads ==
    At(<<"serial_number", "hardware_version", "firmware_version", "manufacturer",
         "product_code", "name", "serial_number">>, GatewayScope)

DiagnosticAccessors ==
    <<"tag_position", "tag_power_supply_type", "tag_rated_current", "tag_rated_voltage",
      "tag_circuit_diagnostic", "tag_circuit", "tag_product_code", "tag_phase_sequence",
      "tag_product_family">>

\* the DeviceInfo tag_device_info returns: kwargs, with suggested_area only when reachable
tag_device_info_always_area(modbus_index, gateway_identification) ==
    [configuration_url |-> "presentation_url",
     via_device |-> gateway_identification,
     identifiers |-> {<<TAG_DOMAIN, tag_serial_number(modbus_index)>>},
     serial_number |-> tag_serial_number(modbus_index),
     hw_version |-> Val("tag_hardware_revision", modbus_index),
     sw_version |-> Val("tag_firmware_revision", modbus_index),
     manufacturer |-> Val("tag_vendor_name", modbus_index),
     model |-> Val("tag_product_model", modbus_index),
     name |-> Val("tag_name", modbus_index),
     suggested_area |-> Val("tag_usage", modbus_index)]

tag_device_info(modbus_index, gateway_identification) ==
    LET is_unreachable == tag_radio_lqi_gateway_is_none(modbus_index)
        kwargs ==
            [configuration_url |-> "presentation_url",
             via_device |-> gateway_identification,
             identifiers |-> {<<TAG_DOMAIN, tag_serial_number(modbus_index)>>},
             serial_number |-> tag_serial_number(modbus_index),
             hw_version |-> Val("tag_hardware_revision", modbus_index),
             sw_version |-> Val("tag_firmware_revision", modbus_index),
             manufacturer |-> Val("tag_vendor_name", modbus_index),
             model |-> Val("tag_product_model", modbus_index),
             name |-> Val("tag_name", modbus_index)]
    IN  IF ~is_unreachable
        THEN kwargs @@ [suggested_area |-> Val("tag_usage", modbus_index)]
        ELSE kwargs

\* the accessor calls tag_device_info makes, in order
tag_device_info_reads(modbus_index) ==
    LET is_unreachable == tag_radio_lqi_gateway_is_none(modbus_index)
    IN  At(<<"tag_radio_lqi_gateway", "tag_serial_number", "tag_hardware_revision",
             "tag_firmware_revision", "tag_vendor_name", "tag_product_model", "tag_name">>
           \o (IF ~is_unreachable THEN <<"tag_usage">> ELSE <<>>)
           \o (IF ~is_unreachable /\ debug THEN DiagnosticAccessors ELSE <<>>),
           modbus_index)

\* GatewayEntity.__init__; every entity of a device holds the same DeviceInfo object
GatewayEntity(cls, tag_device, sensor_name) ==
    [cls |-> cls,
     modbus_index |-> GatewayScope,
     device_info |-> GatewayScope,
     name |-> tag_device.name \o " " \o sensor_name,
     unique_id |-> TAG_DOMAIN \o GatewaySerial \o sensor_name,
     arg |-> "",
     extra |-> <<>>]

\* PowerTagEntity.__init__; arg is the phase or line the subclass keeps, extra the
\* _attr_extra_state_attributes the subclass constructor sets
PowerTagEntity(cls, modbus_index, tag_device, entity_name, arg, extra) ==
    [cls |-> cls,
     modbus_index |-> modbus_index,
     device_info |-> modbus_index,
     name |-> tag_device.name \o " " \o entity_name,
     unique_id |-> TAG_DOMAIN \o tag_serial_number(modbus_index) \o entity_name,
     arg |-> arg,
     extra |-> extra]

\* the accessor calls the constructor of an entity makes
CtorReads(e) ==
    IF e.cls = "GatewayTime" THEN <<<<"serial_number", GatewayScope>>>>
    ELSE <<<<"tag_serial_number", e.modbus_index>>>>
         \o (IF e.cls = "PowerTagCurrent"
             THEN <<<<"tag_rated_current", e.modbus_index>>>> ELSE <<>>)
         \o (IF e.cls = "PowerTagVoltage"
             THEN <<<<"tag_rated_voltage", e.modbus_index>>>> ELSE <<>>)

(***************************************************************************)
(* sensor.py: the entity classes and async_setup_entry.                    *)
(***************************************************************************)
GatewayTime(tag_device) == GatewayEntity("GatewayTime", tag_device, "datetime")

\* the twelve channels every tag gets, in the order of the entities.extend call
FixedChannels ==
    <<<<"PowerTagApparentPower", "apparent power">>,
      <<"PowerTagActivePower", "active power">>,
      <<"PowerTagDemandActivePower", "demand active power">>,
      <<"PowerTagTotalEnergy", "total energy">>,
      <<"PowerTagPartialEnergy", "partial energy">>,
      <<"PowerTagPowerFactor", "power factor">>,
      <<"PowerTagRssiTag", "RSSI in tag">>,
      <<"PowerTagRssiGateway", "RSSI in gateway">>,
      <<"PowerTagLqiTag", "LQI in tag">>,
      <<"PowerTagLqiGateway", "LQI in gateway">>,
      <<"PowerTagPerTag", "packet error rate in tag">>,
      <<"PowerTagPerGateway", "packet error rate in gateway">>>>

FixedEntities(modbus_index, tag_device) ==
    [i \in DOMAIN FixedChannels |->
        PowerTagEntity(FixedChannels[i][1], modbus_index, tag_device,
                       FixedChannels[i][2], "", <<>>)]

\* f"current {phase.name}"
PowerTagCurrent(modbus_index, tag_device, ph) ==
    PowerTagEntity("PowerTagCurrent", modbus_index, tag_device, "current " \o ph, ph,
                   ("Rated current" :> Reading("tag_rated_current", Discovery)))

\* f"voltage {line.name}"
PowerTagVoltage(modbus_index, tag_device, line) ==
    PowerTagEntity("PowerTagVoltage", modbus_index, tag_device, "voltage " \o line, line,
                   ("Rated voltage" :> Reading("tag_rated_voltage", Discovery)))

\* f"active power phase {phase}": the Enum member itself is formatted, "Phase.A"
PowerTagActivePowerPerPhase(modbus_index, tag_device, ph) ==
    PowerTagEntity("PowerTagActivePowerPerPhase", modbus_index, tag_device,
                   "active power phase Phase." \o ph, ph, <<>>)

\* the body of `for phase in phase_sequence_to_phases(phase_sequence)`
PhaseEntitiesAlways(modbus_index, tag_device, phase_sequence, neutral) ==
    LET phases == phase_sequence_to_phases(phase_sequence)
    IN  Flatten([i \in DOMAIN phases |->
            <<PowerTagCurrent(modbus_index, tag_device, phases[i]),
              PowerTagActivePowerPerPhase(modbus_index, tag_device, phases[i])>>])

PhaseEntities(modbus_index, tag_device, phase_sequence, neutral) ==
    LET phases == phase_sequence_to_phases(phase_sequence)
    IN  Flatten([i \in DOMAIN phases |->
            <<PowerTagCurrent(modbus_index, tag_device, phases[i])>>
            \o (IF neutral
                THEN <<PowerTagActivePowerPerPhase(modbus_index, tag_device, phases[i])>>
                ELSE <<>>)])

\* the body of `for line_voltage in phase_sequence_to_line_voltages(...)`
VoltageEntities(modbus_index, tag_device, phase_sequence, neutral) ==
    LET lines == phase_sequence_to_line_voltages(phase_sequence, neutral)
    IN  [i \in DOMAIN lines |-> PowerTagVoltage(modbus_index, tag_device, lines[i])]

ProbeLimit == 100

\* range(1, 100) hands out the positions one by one
NextPositionSkipping(i) == i + 2

NextPosition(i) == i + 1

\* lines 27-31: the gateway device and its datetime entity
SetupStart ==
    /\ phase = "init"
    /\ devices' = (GatewayScope :> gateway_device_info)
    /\ entities' = <<GatewayTime(gateway_device_info)>>
    /\ reads' = AddReads(reads, gateway_device_info_reads
                                \o CtorReads(GatewayTime(gateway_device_info)))
    /\ phase' = "probing"
    /\ pos' = 1
    /\ UNCHANGED <<probes, addCalls, error>>
    /\ UNCHANGED <<classifyVars, envVars, pollVars>>

\* one iteration of the loop that finds a tag at position i (lines 34-66)
ProbeTag ==
    /\ phase = "probing"
    /\ pos < ProbeLimit
    /\ modbus_address_of_node(pos) # NoAddress
    /\ LET modbus_address == modbus_address_of_node(pos)
           tag_device == tag_device_info(modbus_address,
                             CHOOSE id \in gateway_device_info.identifiers : TRUE)
           fixed == FixedEntities(modbus_address, tag_device)
           phase_sequence == tag_phase_sequence(modbus_address)
           product_type == tag_product_type(modbus_address)
           before == <<<<"modbus_address_of_node", pos>>>>
                     \o tag_device_info_reads(modbus_address)
                     \o Flatten([i \in DOMAIN fixed |-> CtorReads(fixed[i])])
                     \o At(<<"tag_phase_sequence", "tag_product_type">>, modbus_address)
       IN  /\ probes' = Append(probes, [pos |-> pos, address |-> modbus_address])
           /\ devices' = devices @@ (modbus_address :> tag_device)
           /\ IF LookupRaises(product_type)
              THEN \* has_neutral raises IndexError out of async_setup_entry
                   /\ entities' = entities \o fixed
                   /\ reads' = AddReads(reads, before)
                   /\ phase' = "failed"
                   /\ error' = "IndexError"
                   /\ pos' = pos
              ELSE LET neutral == has_neutral(product_type)
                       rest == PhaseEntities(modbus_address, tag_device,
                                             phase_sequence, neutral)
                               \o VoltageEntities(modbus_address, tag_device,
                                                  phase_sequence, neutral)
                   IN  /\ entities' = entities \o fixed \o rest
                       /\ reads' = AddReads(reads, before
                              \o Flatten([i \in DOMAIN rest |-> CtorReads(rest[i])]))
                       /\ phase' = "probing"
                       /\ error' = error
                       /\ pos' = NextPosition(pos)
    /\ UNCHANGED addCalls
    /\ UNCHANGED <<classifyVars, envVars, pollVars>>

NoValue == Reading("None", Discovery)

\* what an entity holds once constructed: no native value, the constructor's attributes
Constructed(e) == [native |-> NoValue, attrs |-> e.extra, last_reset |-> NoValue]

\* the loop ends (break on None at line 36, or range(1, 100) exhausted) and the list
\* is handed to async_add_entities (line 68)
LoopExit ==
    /\ phase = "probing"
    /\ IF pos < ProbeLimit THEN modbus_address_of_node(pos) = NoAddress ELSE TRUE
    /\ probes' = IF pos < ProbeLimit
                 THEN Append(probes, [pos |-> pos, address |-> NoAddress])
                 ELSE probes
    /\ reads' = IF pos < ProbeLimit
                THEN AddReads(reads, <<<<"modbus_address_of_node", pos>>>>)
                ELSE reads
    /\ addCalls' = Append(addCalls, entities)
    /\ store' = [i \in DOMAIN entities |-> Constructed(entities[i])]
    /\ phase' = "done"
    /\ UNCHANGED <<pos, devices, entities, error>>
    /\ UNCHANGED <<tasks, running, clock, raised>>
    /\ UNCHANGED <<classifyVars, envVars>>

\* a client read made by async_setup_entry raises: the exception leaves
\* async_setup_entry and nothing is handed over (the reads of the interrupted
\* iteration are not counted)
SetupCommError ==
    /\ phase \in {"init", "probing"}
    /\ phase' = "failed"
    /\ error' = "CommunicationError"
    /\ UNCHANGED <<pos, probes, devices, entities, addCalls, reads>>
    /\ UNCHANGED <<classifyVars, envVars, pollVars>>

NextSetup == SetupStart \/ ProbeTag \/ LoopExit \/ SetupCommError

(***************************************************************************)
(* sensor.py: the async_update methods, run as tasks on the event loop.    *)
(***************************************************************************)
Step(accessor, into, key) == [read |-> accessor, into |-> into, key |-> key]

\* the client calls of an entity's async_update, in order, and where each result goes:
\* _attr_native_value, _attr_last_reset, or a key of the dict that becomes
\* _attr_extra_state_attributes once all its values are read
async_update(cls) ==
    CASE cls = "GatewayTime" ->
            <<Step("date_time", "native", "")>>
      [] cls = "PowerTagApparentPower" ->
            <<Step("tag_power_apparent_total", "native", "")>>
      [] cls = "PowerTagCurrent" ->
            <<Step("tag_current", "native", "")>>
      [] cls = "PowerTagVoltage" ->
            <<Step("tag_voltage", "native", "")>>
      [] cls = "PowerTagActivePower" ->
            <<Step("tag_power_active_total", "native", "")>>
      [] cls = "PowerTagActivePowerPerPhase" ->
            <<Step("tag_power_active", "native", "")>>
      [] cls = "PowerTagDemandActivePower" ->
            <<Step("tag_power_active_demand_total", "native", ""),
              Step("tag_power_active_power_demand_total_maximum", "attrs",
                   "Maximum demand active power (W)"),
              Step("tag_power_active_demand_total_maximum_timestamp", "attrs",
                   "Maximum demand active power timestamp")>>
      [] cls = "PowerTagTotalEnergy" ->
            <<Step("tag_energy_active_total", "native", "")>>
      [] cls = "PowerTagPartialEnergy" ->
            <<Step("tag_energy_active_partial", "native", ""),
              Step("tag_load_operating_time_start", "last_reset", "")>>
      [] cls = "PowerTagPowerFactor" ->
            <<Step("tag_power_factor_total", "native", "")>>
      [] cls = "PowerTagRssiTag" ->
            <<Step("tag_radio_rssi_inside_tag", "native", ""),
              Step("tag_radio_rssi_minimum", "attrs", "Minimum")>>
      [] cls = "PowerTagRssiGateway" ->
            <<Step("tag_radio_rssi_inside_gateway", "native", ""),
              Step("tag_radio_rssi_minimum", "attrs", "Minimum")>>
      [] cls = "PowerTagLqiTag" ->
            <<Step("tag_radio_lqi_tag", "native", ""),
              Step("tag_radio_lqi_minimum", "attrs", "Minimum")>>
      [] cls = "PowerTagLqiGateway" ->
            <<Step("tag_radio_lqi_gateway", "native", ""),
              Step("tag_radio_lqi_minimum", "attrs", "Minimum")>>
      [] cls = "PowerTagPerTag" ->
            <<Step("tag_radio_per_tag", "native", ""),
              Step("tag_radio_per_maximum", "attrs", "Maximum")>>
      [] cls = "PowerTagPerGateway" ->
            <<Step("tag_radio_per_gateway", "native", ""),
              Step("tag_radio_per_maximum", "attrs", "Maximum")>>

\* whether async_update awaits its client calls (and so gives up the event loop while
\* a read is in flight): every call is a plain synchronous call
AwaitsClientAlways(cls) == TRUE

AwaitsClient(cls) == FALSE

\* what a raising client call does to the stored values: the exception leaves
\* async_update before the assignment of that statement, nothing is written
OnReadErrorClears(st, e) == [st EXCEPT ![e].native = NoValue]

OnReadError(st, e) == st

\* the stored values of entity e after the k-th client call of its update returned v:
\* tmp holds the values of the attribute dict read so far
AfterRead(st, e, prog, k, v, tmp) ==
    CASE prog[k].into = "native" -> [st EXCEPT ![e].native = v]
      [] prog[k].into = "last_reset" -> [st EXCEPT ![e].last_reset = v]
      [] prog[k].into = "attrs" ->
            IF k = Len(prog) \/ prog[k + 1].into # "attrs"
            THEN [st EXCEPT ![e].attrs = tmp @@ (prog[k].key :> v)]
            ELSE st

\* the client call the k-th statement of e's async_update makes
PollReadWithSerial(e, k) ==
    <<<<"tag_serial_number", entities[e].modbus_index>>,
      <<async_update(entities[e].cls)[k].read, entities[e].modbus_index>>>>

PollRead(e, k) == <<<<async_update(entities[e].cls)[k].read, entities[e].modbus_index>>>>

Without(f, e) == [x \in DOMAIN f \ {e} |-> f[x]]

MaxUpdates == 2

\* the platform creates the update task of an added entity (a poll tick, or a
\* requested update); tasks of several entities exist side by side. The platform
\* runs on the event loop itself, so it creates tasks only while no task holds it
Schedule(e) ==
    /\ phase = "done"
    /\ running = {}
    /\ e \in DOMAIN store
    /\ e \notin DOMAIN tasks
    /\ clock < MaxUpdates
    /\ clock' = clock + 1
    /\ tasks' = tasks @@ (e :> [step |-> 1, inflight |-> FALSE, tmp |-> <<>>,
                                upd |-> clock + 1])
    /\ UNCHANGED <<store, running, raised>>
    /\ UNCHANGED <<classifyVars, envVars, setupVars>>

\* the task of e gets the event loop (or already has it) and calls the client
BeginRead(e) ==
    /\ e \in DOMAIN tasks
    /\ ~tasks[e].inflight
    /\ running \subseteq {e}
    /\ tasks' = [tasks EXCEPT ![e].inflight = TRUE]
    /\ running' = IF AwaitsClient(entities[e].cls) THEN {} ELSE {e}
    /\ UNCHANGED <<store, clock, raised>>
    /\ UNCHANGED <<classifyVars, envVars, setupVars>>

\* the client call returns a value
EndReadOk(e) ==
    /\ e \in DOMAIN tasks
    /\ tasks[e].inflight
    /\ running \subseteq {e}
    /\ LET prog == async_update(entities[e].cls)
           k == tasks[e].step
           v == Reading(prog[k].read, tasks[e].upd)
       IN  /\ store' = AfterRead(store, e, prog, k, v, tasks[e].tmp)
           /\ reads' = AddReads(reads, PollRead(e, k))
           /\ IF k = Len(prog)
              THEN /\ tasks' = Without(tasks, e)
                   /\ running' = {}
              ELSE /\ tasks' = [tasks EXCEPT
                         ![e].step = k + 1,
                         ![e].inflight = FALSE,
                         ![e].tmp = IF prog[k].into = "attrs"
                                    THEN tasks[e].tmp @@ (prog[k].key :> v)
                                    ELSE tasks[e].tmp]
                   /\ running' = {e}
    /\ UNCHANGED <<clock, raised>>
    /\ UNCHANGED <<classifyVars, envVars>>
    /\ UNCHANGED <<phase, pos, probes, devices, entities, addCalls, error>>

\* the client call raises a communication error: it leaves async_update, the task ends
EndReadFail(e) ==
    /\ e \in DOMAIN tasks
    /\ tasks[e].inflight
    /\ running \subseteq {e}
    /\ store' = OnReadError(store, e)
    /\ tasks' = Without(tasks, e)
    /\ running' = {}
    /\ raised' = raised \cup {[ent |-> e, upd |-> tasks[e].upd, step |-> tasks[e].step]}
    /\ UNCHANGED clock
    /\ UNCHANGED <<classifyVars, envVars, setupVars>>

NextPoll ==
    \/ \E e \in DOMAIN store : Schedule(e)
    \/ \E e \in DOMAIN store : BeginRead(e)
    \/ \E e \in DOMAIN store : EndReadOk(e)
    \/ \E e \in DOMAIN store : EndReadFail(e)

(***************************************************************************)
(* Calls of the classification functions on arbitrary inputs.              *)
(***************************************************************************)
NoCall == [op |-> "none", raised |-> FALSE, val |-> FALSE]

CallHasNeutral ==
    /\ ret' = [op |-> "has_neutral",
               raised |-> LookupRaises(argType),
               val |-> IF LookupRaises(argType) THEN FALSE ELSE has_neutral(argType)]
    /\ UNCHANGED <<argType, argSeq, argNeutral, envVars, setupVars, pollVars>>

CallIsM ==
    /\ ret' = [op |-> "is_m",
               raised |-> LookupRaises(argType),
               val |-> IF LookupRaises(argType) THEN FALSE ELSE is_m(argType)]
    /\ UNCHANGED <<argType, argSeq, argNeutral, envVars, setupVars, pollVars>>

CallIsR ==
    /\ ret' = [op |-> "is_r",
               raised |-> LookupRaises(argType),
               val |-> IF LookupRaises(argType) THEN FALSE ELSE is_r(argType)]
    /\ UNCHANGED <<argType, argSeq, argNeutral, envVars, setupVars, pollVars>>

CallIsPowertag ==
    /\ ret' = [op |-> "is_powertag", raised |-> FALSE, val |-> is_powertag(argType)]
    /\ UNCHANGED <<argType, argSeq, argNeutral, envVars, setupVars, pollVars>>

CallPhases ==
    /\ ret' = [op |-> "phase_sequence_to_phases", raised |-> FALSE,
               val |-> phase_sequence_to_phases(argSeq)]
    /\ UNCHANGED <<argType, argSeq, argNeutral, envVars, setupVars, pollVars>>

CallLineVoltages ==
    /\ ret' = [op |-> "phase_sequence_to_line_voltages", raised |-> FALSE,
               val |-> phase_sequence_to_line_voltages(argSeq, argNeutral)]
    /\ UNCHANGED <<argType, argSeq, argNeutral, envVars, setupVars, pollVars>>

NextClassify ==
    CallHasNeutral \/ CallIsM \/ CallIsR \/ CallIsPowertag \/ CallPhases \/ CallLineVoltages

(***************************************************************************)
(* Initial states.                                                         *)
(***************************************************************************)
\* async_setup_entry has not run yet
BeforeSetup ==
    /\ phase = "init"
    /\ pos = 0
    /\ probes = <<>>
    /\ devices = <<>>
    /\ entities = <<>>
    /\ addCalls = <<>>
    /\ error = NoError
    /\ reads = <<>>
    /\ store = <<>>
    /\ tasks = <<>>
    /\ running = {}
    /\ clock = 0
    /\ raised = {}

NoClassifyCall ==
    /\ argType = "A9MEM1520"
    /\ argSeq = "INVALID"
    /\ argNeutral = FALSE
    /\ ret = NoCall

\* the gateway assigns the tag at position i its Modbus address and serial number
AddressBase == 10

MakeTag(i, kind) ==
    [address |-> AddressBase + i,
     serial |-> "SN" \o ToString(i),
     ptype |-> kind.ptype,
     seq |-> kind.seq,
     reachable |-> kind.reachable]

\* the gateways with at most n attached tags, each of a kind of `kinds`
Gateways(n, kinds) ==
    UNION {{[i \in 1..k |-> MakeTag(i, f[i])] : f \in [1..k -> kinds]} : k \in 0..n}

MaxTags == 1

\* one metering type with neutral, one of each class without neutral, one accessory
SetupTypes == {"A9MEM1520", "A9MEM1540", "A9MEM1573", "LV434022", "SMT10020"}

TagKinds == [ptype : SetupTypes, seq : PhaseSequence, reachable : BOOLEAN]

Init ==
    /\ gateway \in Gateways(MaxTags, TagKinds)
    /\ debug \in BOOLEAN
    /\ BeforeSetup
    /\ NoClassifyCall

Spec == Init /\ [][NextSetup]_vars

InitClassify ==
    /\ argType \in ProductType
    /\ argSeq \in PhaseSequence
    /\ argNeutral \in BOOLEAN
    /\ ret = NoCall
    /\ gateway = <<>>
    /\ debug = FALSE
    /\ BeforeSetup

SpecClassify == InitClassify /\ [][NextClassify]_vars

MaxAttached == 100

ProbeKind == [ptype |-> "A9MEM1540", seq |-> "A", reachable |-> TRUE]

InitProbe ==
    /\ gateway \in {[i \in 1..n |-> MakeTag(i, ProbeKind)] : n \in 0..MaxAttached}
    /\ debug = FALSE
    /\ BeforeSetup
    /\ NoClassifyCall

SpecProbe == InitProbe /\ [][NextSetup]_vars

\* one reachable single-phase tag with neutral: an entity of each of the sixteen classes
SessionKind == [ptype |-> "A9MEM1520", seq |-> "A", reachable |-> TRUE]

InitSession ==
    /\ gateway = <<MakeTag(1, SessionKind)>>
    /\ debug = TRUE
    /\ BeforeSetup
    /\ NoClassifyCall

SpecSession == InitSession /\ [][NextSetup \/ NextPoll]_vars

\* serial numbers as the gateway reports them: strings of any length and content
TagSerials == {"SN1", "SN1demand ", "SN2"}

MakeTagWithSerial(i, serial, kind) == [MakeTag(i, kind) EXCEPT !.serial = serial]

\* reachable metering tags of every phase sequence, one type with neutral and one without
MeteringKinds ==
    {k \in TagKinds : k.reachable /\ k.ptype \in {"A9MEM1520", "A9MEM1540"}}

\* two attached tags whose serial numbers differ from each other and from the gateway's
InitIds ==
    /\ gateway \in {<<MakeTagWithSerial(1, s[1], k[1]), MakeTagWithSerial(2, s[2], k[2])>> :
                        s \in {t \in TagSerials \X TagSerials : t[1] # t[2]},
                        k \in MeteringKinds \X MeteringKinds}
    /\ debug = FALSE
    /\ BeforeSetup
    /\ NoClassifyCall

SpecIds == InitIds /\ [][NextSetup]_vars

(***************************************************************************)
(* Properties.                                                             *)
(***************************************************************************)
LookupOps == {"has_neutral", "is_m", "is_r"}

\* C1: for every product type, the feature-class lookup of has_neutral, is_m and is_r
\* ends with a class (no IndexError) and exactly one class lists the type.
C1_LookupFindsExactlyOneClass ==
    ret.op \in LookupOps =>
        /\ ~ret.raised
        /\ Cardinality({fc \in DOMAIN FeatureClass :
                            argType \in Range(FeatureClass[fc])}) = 1

\* C3: phase_sequence_to_line_voltages: INVALID gives []; a single phase X gives [X_N]
\* with neutral and [] without; a three-phase ordering gives the three line-to-neutral
\* voltages with neutral and the three line-to-line voltages without.
C3_LineVoltages ==
    ret.op = "phase_sequence_to_line_voltages" =>
        ret.val = IF argSeq = "INVALID" THEN <<>>
                  ELSE IF argSeq \in Phase
                       THEN (IF argNeutral THEN <<argSeq \o "_N">> ELSE <<>>)
                       ELSE (IF argNeutral THEN <<"A_N", "B_N", "C_N">>
                                           ELSE <<"A_B", "B_C", "C_A">>)

C3_Witness ==
    /\ ret.op = "phase_sequence_to_line_voltages"
    /\ argSeq = "B"
    /\ ~argNeutral
    /\ ret.val = <<>>

RECURSIVE Spell(_)
Spell(phases) == IF Len(phases) = 0 THEN "" ELSE Head(phases) \o Spell(Tail(phases))

\* C4: phase_sequence_to_phases maps INVALID to [] and every other sequence to the
\* phases its name spells, in that order, each phase once.
C4_Phases ==
    ret.op = "phase_sequence_to_phases" =>
        IF argSeq = "INVALID"
        THEN ret.val = <<>>
        ELSE /\ Spell(ret.val) = argSeq
             /\ \A i \in DOMAIN ret.val : ret.val[i] \in Phase
             /\ \A i, j \in DOMAIN ret.val : ret.val[i] = ret.val[j] => i = j

C4_Witness ==
    /\ ret.op = "phase_sequence_to_phases"
    /\ argSeq = "CBA"
    /\ ret.val = <<"C", "B", "A">>

\* the probes so far visit positions 1, 2, 3, ... with no gap, and only the last one
\* may have reported none; once one did, discovery is over
ProbesInOrder ==
    /\ \A i \in DOMAIN probes : probes[i].pos = i
    /\ \A i \in DOMAIN probes : probes[i].address = NoAddress => i = Len(probes)
    /\ \A i \in DOMAIN probes : probes[i].address = NoAddress => phase = "done"

\* position i yielded the address of the i-th tag and that tag has entities
Registered(i) ==
    /\ i \in DOMAIN probes
    /\ probes[i].address = gateway[i].address
    /\ \E n \in DOMAIN entities : entities[n].modbus_index = gateway[i].address

\* C2 as claimed: probes in increasing order without gaps, stopping at the first none;
\* with k-1 attached tags, positions 1..k-1 yield registered addresses and position k
\* is the last probe and returns none.
C2_LastProbeReturnsNone ==
    /\ ProbesInOrder
    /\ phase = "done" =>
        /\ \A i \in 1..Len(gateway) : Registered(i)
        /\ Len(probes) = Len(gateway) + 1
        /\ probes[Len(probes)].address = NoAddress

\* C2 amended: as claimed for at most ProbeLimit - 2 attached tags; with more, positions
\* 1..ProbeLimit-1 each yield a registered address, none reports none and no later
\* position is probed.
C2_ProbesUntilNoneOrLimit ==
    /\ ProbesInOrder
    /\ Len(probes) < ProbeLimit
    /\ phase = "done" =>
        IF Len(gateway) < ProbeLimit - 1
        THEN /\ \A i \in 1..Len(gateway) : Registered(i)
             /\ Len(probes) = Len(gateway) + 1
             /\ probes[Len(probes)].address = NoAddress
        ELSE /\ \A i \in 1..(ProbeLimit - 1) : Registered(i)
             /\ Len(probes) = ProbeLimit - 1
             /\ \A i \in DOMAIN probes : probes[i].address # NoAddress

C2_Witness ==
    /\ phase = "done"
    /\ Len(gateway) = 3
    /\ Len(probes) = 4
    /\ probes[3].address = gateway[3].address
    /\ probes[4].address = NoAddress

\* the entities created for the device at an address
EntitiesOf(modbus_index) ==
    {n \in DOMAIN entities : entities[n].modbus_index = modbus_index}

Channels(modbus_index, cls) ==
    {n \in EntitiesOf(modbus_index) : entities[n].cls = cls}

FixedClasses == {FixedChannels[i][1] : i \in DOMAIN FixedChannels}

\* the channels of tag t are the twelve fixed ones, a current channel per phase, a
\* per-phase active power channel per phase iff the type has a neutral, a voltage
\* channel per line voltage, and nothing else
ChannelsAsClassified(t) ==
    LET neutral == has_neutral(t.ptype)
        phases == Range(phase_sequence_to_phases(t.seq))
        lines == Range(phase_sequence_to_line_voltages(t.seq, neutral))
    IN  /\ \A c \in FixedClasses : Cardinality(Channels(t.address, c)) = 1
        /\ \A ph \in phases :
              Cardinality({n \in Channels(t.address, "PowerTagCurrent") :
                              entities[n].arg = ph}) = 1
        /\ Cardinality(Channels(t.address, "PowerTagCurrent")) = Cardinality(phases)
        /\ \A ph \in phases :
              Cardinality({n \in Channels(t.address, "PowerTagActivePowerPerPhase") :
                              entities[n].arg = ph}) = IF neutral THEN 1 ELSE 0
        /\ Cardinality(Channels(t.address, "PowerTagActivePowerPerPhase"))
              = IF neutral THEN Cardinality(phases) ELSE 0
        /\ \A ln \in lines :
              Cardinality({n \in Channels(t.address, "PowerTagVoltage") :
                              entities[n].arg = ln}) = 1
        /\ Cardinality(Channels(t.address, "PowerTagVoltage")) = Cardinality(lines)
        /\ Cardinality(EntitiesOf(t.address))
              = Len(FixedChannels) + Cardinality(phases) + Cardinality(lines)
                + IF neutral THEN Cardinality(phases) ELSE 0

\* C8: async_add_entities is called once, after the last probe, with one gateway
\* datetime entity and, per discovered tag, exactly the channels its phase sequence
\* and product type classify; before that nothing is handed over.
C8_ChannelRegistration ==
    /\ phase # "done" => addCalls = <<>>
    /\ phase = "done" =>
        /\ addCalls = <<entities>>
        /\ Cardinality(Channels(GatewayScope, "GatewayTime")) = 1
        /\ Cardinality(EntitiesOf(GatewayScope)) = 1
        /\ \A i \in DOMAIN gateway : ChannelsAsClassified(gateway[i])
        /\ \A n \in DOMAIN entities :
              entities[n].modbus_index
                  \in {GatewayScope} \cup {gateway[i].address : i \in DOMAIN gateway}

C8_Witness ==
    /\ phase = "done"
    /\ Len(gateway) = 1
    /\ gateway[1].ptype = "A9MEM1573"
    /\ gateway[1].seq = "BCA"
    /\ Cardinality(Channels(gateway[1].address, "PowerTagCurrent")) = 3
    /\ Cardinality(Channels(gateway[1].address, "PowerTagActivePowerPerPhase")) = 0
    /\ Cardinality(Channels(gateway[1].address, "PowerTagVoltage")) = 3
    /\ Len(addCalls) = 1

IdentityKeys == {"identifiers", "serial_number", "name", "model", "manufacturer",
                 "hw_version", "sw_version", "via_device", "configuration_url"}

\* C9: for every tag found, reachable or not: its device metadata carries the identity
\* fields, suggested_area is set and tag_usage read iff the tag is reachable, the
\* diagnostic reads are made only for a reachable tag, the twelve fixed channels are
\* created, and unless the classification of its type raises the loop moves on to the
\* next position; an IndexError comes only from the type of the tag probed last.
C9_UnreachableIsNoError ==
    /\ error = "IndexError" =>
          /\ Len(probes) > 0
          /\ probes[Len(probes)].address # NoAddress
          /\ LookupRaises(gateway[Len(probes)].ptype)
    /\ \A i \in DOMAIN probes : probes[i].address # NoAddress =>
          LET t == gateway[i]
              own == EntitiesOf(t.address)
          IN  /\ \A c \in FixedClasses : Cardinality(Channels(t.address, c)) = 1
              /\ \A n \in own : entities[n].device_info = t.address
              /\ IdentityKeys \subseteq DOMAIN devices[t.address]
              /\ devices[t.address].serial_number = t.serial
              /\ devices[t.address].identifiers = {<<TAG_DOMAIN, t.serial>>}
              /\ "suggested_area" \in DOMAIN devices[t.address] <=> t.reachable
              /\ Count(reads, <<"tag_usage", t.address>>) = IF t.reachable THEN 1 ELSE 0
              /\ \A d \in {"tag_position", "tag_circuit", "tag_product_family"} :
                    /\ Count(reads, <<d, t.address>>) > 0 => t.reachable
                    /\ Count(reads, <<d, t.address>>)
                          = IF t.reachable /\ debug THEN 1 ELSE 0
              /\ ~LookupRaises(t.ptype) => pos > i

C9_Witness ==
    /\ phase = "done"
    /\ Len(gateway) = 1
    /\ ~gateway[1].reachable
    /\ debug
    /\ Len(probes) = 2
    /\ Cardinality(EntitiesOf(gateway[1].address)) > Len(FixedChannels)
    /\ "suggested_area" \notin DOMAIN devices[gateway[1].address]

InFlight == {e \in DOMAIN tasks : tasks[e].inflight}

\* C5: no two client accessor calls are in progress at the same time, however many
\* update tasks exist side by side.
C5_ReadsSerialized == Cardinality(InFlight) <= 1

C5_Witness ==
    /\ Cardinality(DOMAIN tasks) >= 2
    /\ Cardinality(InFlight) = 1
    /\ \E e \in DOMAIN tasks : ~tasks[e].inflight /\ tasks[e].step = 1

\* the step taken is the end of a client call of e that raised
ReadFailed(e) ==
    /\ e \in InFlight
    /\ raised' = raised \cup {[ent |-> e, upd |-> tasks[e].upd, step |-> tasks[e].step]}
    /\ raised' # raised

\* the step taken is the end of a client call of e that returned
ReadReturned(e) ==
    /\ e \in InFlight
    /\ raised' = raised
    /\ e \in DOMAIN tasks' => ~tasks'[e].inflight

\* the value the k-th statement of its async_update leaves in entity e
Stored(st, e, k) ==
    LET step == async_update(entities[e].cls)[k]
    IN  CASE step.into = "native" -> st[e].native
          [] step.into = "last_reset" -> st[e].last_reset
          [] step.into = "attrs" ->
                IF step.key \in DOMAIN st[e].attrs THEN st[e].attrs[step.key] ELSE NoValue

\* the k-th statement is the last one contributing to the attribute dict (or is no
\* attribute read at all): its value is stored as soon as the call returns
StoresAtOnce(e, k) ==
    LET prog == async_update(entities[e].cls)
    IN  prog[k].into # "attrs" \/ k = Len(prog)

\* C6: a client call that raises is surfaced for that update alone and changes no
\* stored value of any entity; a call that returns, whatever failed before, stores
\* the value it read and touches no other entity.
C6_FailuresIsolated ==
    [][/\ raised' # raised =>
            /\ store' = store
            /\ \E e \in InFlight :
                  /\ ReadFailed(e)
                  /\ tasks' = Without(tasks, e)
       /\ \A e \in DOMAIN tasks :
            ReadReturned(e) =>
                /\ \A f \in DOMAIN store : f # e => store'[f] = store[f]
                /\ StoresAtOnce(e, tasks[e].step) =>
                      Stored(store', e, tasks[e].step)
                          = Reading(async_update(entities[e].cls)[tasks[e].step].read,
                                    tasks[e].upd)]_vars

C6_Witness ==
    \E r \in raised : \E e \in DOMAIN store :
        /\ store[e].native # NoValue
        /\ store[e].native.upd > r.upd
        /\ e # r.ent

\* the classes whose async_update reads a companion quantity after the native value
Companioned(e) == Len(async_update(entities[e].cls)) > 1

\* the stored native value and every stored companion of e come from one update
FromOneUpdate(e) ==
    \A k \in DOMAIN async_update(entities[e].cls) :
        Stored(store, e, k).upd = store[e].native.upd

\* C10: whenever no update of a multi-read entity is under way, its native value and
\* its companions were produced by the same update (or none has been stored yet).
C10_UpdatesAllOrNothing ==
    \A e \in DOMAIN store :
        Companioned(e) /\ e \notin DOMAIN tasks => FromOneUpdate(e)

IdentityReads(modbus_index) ==
    [a \in {"tag_serial_number", "tag_product_type", "tag_phase_sequence"} |->
        Count(reads, <<a, modbus_index>>)]

SerialsDistinct ==
    /\ \A i, j \in DOMAIN gateway : i # j => gateway[i].serial # gateway[j].serial
    /\ \A i \in DOMAIN gateway : gateway[i].serial # GatewaySerial

\* the entities created so far that hold the same unique id as another one
Clashing ==
    {i \in DOMAIN entities :
        \E j \in DOMAIN entities : j # i /\ entities[j].unique_id = entities[i].unique_id}

\* C11: when the attached tags have pairwise distinct serial numbers that also differ
\* from the gateway's, every two entities created by one run of async_setup_entry
\* have different unique ids
C11_UniqueIdsDistinct == SerialsDistinct => Clashing = {}
====
